---- MODULE Spec2Model ----
(***************************************************************************)
(* OAuth2 authorization server of opencollective-api:                      *)
(*   server/lib/oauth/index.ts  - CustomTokenHandler, CustomOAuth2Server,  *)
(*                                the authenticate / authorize / token     *)
(*                                middleware, handleResponse, handleError  *)
(*   graphql Application object - the owner-gated field resolvers          *)
(* The Store (./model) and the grant engine the middleware calls into are  *)
(* not part of these sources; they are modelled from the specification     *)
(* (sections 2, 3, 4.1, 4.2 and 5).                                        *)
(* Time is counted in abstract ticks; lifetimes are scaled to ticks.       *)
(* Spec is the server with a downstream handler that returns;             *)
(* SpecDownstream adds one that throws; SpecAuthorize and SpecGrants ask   *)
(* one endpoint with every combination of inputs; SpecResponse,            *)
(* SpecOptions and SpecApplication apply one function to all its inputs.   *)
(***************************************************************************)
EXTENDS Integers, Sequences, FiniteSets, TLC

\* ------------------------------------------------------------------ bounds
\* Requests handled by the server in one behaviour (all three middleware).
MaxRequests == 3
\* Last instant of the wall clock.
MaxClock == 3
\* The access-token lifetime a token call may give in its options, in ticks.
PerCallLifetime == 4

\* --------------------------------------------------------------- constants
\* auth.TOKEN_EXPIRATION_SESSION ("90 days"), in ticks.
TOKEN_EXPIRATION_SESSION == 3
\* The default refreshTokenLifetime (60 * 60 * 24 * 365 seconds), in ticks.
REFRESH_TOKEN_LIFETIME == 12
\* Lifetime of an authorization code ("short TTL"), in ticks.
AuthorizationCodeLifetime == 1

\* config.keys.opencollective.jwtSecret, and a key that is not the server's.
jwtSecret == "jwtSecret"
otherKey == "otherKey"

\* The registered client and the principal of the specification's example.
Client == [id |-> "abc", secret |-> "S", redirectUris |-> {"https://x/cb"},
           grants |-> {"authorization_code", "client_credentials"},
           CollectiveId |-> 1]
Principal == 42
NoUser == 0

\* ----------------------------------------------------------------- options
\* An options object: a function from the names of the options it sets.
NoOptions == [k \in {} |-> 0]

\* lodash assign(a, b): b's own properties overwrite a's.
assign(a, b) ==
  [k \in (DOMAIN a) \cup (DOMAIN b) |-> IF k \in DOMAIN b THEN b[k] ELSE a[k]]

\* The grant types of a token request.
GrantTypes == {"authorization_code", "refresh_token", "client_credentials", "password"}

\* Defaults that require client authentication for no grant type.
TokenDefaults_NoClientAuthentication ==
  [accessTokenLifetime |-> TOKEN_EXPIRATION_SESSION,
   refreshTokenLifetime |-> REFRESH_TOKEN_LIFETIME,
   allowExtendedTokenAttributes |-> FALSE,
   requireClientAuthentication |-> GrantTypes]

\* The defaults literal of CustomOAuth2Server.token. requireClientAuthentication
\* is held as the set of grant types it sets to false ({}: required for all).
TokenDefaults ==
  [accessTokenLifetime |-> TOKEN_EXPIRATION_SESSION,
   refreshTokenLifetime |-> REFRESH_TOKEN_LIFETIME,
   allowExtendedTokenAttributes |-> FALSE,
   requireClientAuthentication |-> {}]
OptionNames == DOMAIN TokenDefaults

\* assign with the construction options applied last.
TokenOptions_ServerWins(serverOpts, callOpts) ==
  assign(assign(TokenDefaults, callOpts), serverOpts)

\* options = assign(defaults, this.options, options)
TokenOptions(serverOpts, callOpts) ==
  assign(assign(TokenDefaults, serverOpts), callOpts)

\* JavaScript truthiness of the values a caller may pass for a flag.
JsFlagValues == {"undefined", "false", "true", "1", "null"}
Truthy(v) == v \in {"true", "1"}

\* -------------------------------------------------------------- failures
OK == "ok"
Pending == "pending"
ErrorKinds == {"InvalidRequest", "InvalidClient", "InvalidGrant",
               "UnsupportedGrantType", "UnauthorizedRequest", "InvalidToken",
               "TokenExpired", "ServerError"}

\* What a throwing downstream handler throws: a plain Error, which has no code.
DownstreamError == "Error"

\* e.code: the HTTP status of a failure kind (0: undefined).
ErrorCode(e) ==
  CASE e \in {"InvalidRequest", "InvalidClient", "InvalidGrant",
              "UnsupportedGrantType"} -> 400
    [] e \in {"UnauthorizedRequest", "InvalidToken", "TokenExpired"} -> 401
    [] e = "ServerError" -> 503
    [] OTHER -> 0

\* ------------------------------------------------------------ value shapes
\* The signed bearer token: the claims jwt.sign embeds, and the signing key.
NoJwt == [access_token |-> 0, sub |-> 0, iat |-> 0, exp |-> 0, key |-> "none"]

\* Bodies a transport response can carry.
Unsent == [type |-> "unsent"]
EmptyBody == [type |-> "empty"]
ErrorBody(e) == [type |-> "json", error |-> e, error_description |-> e]
StringBody(jwt) == [type |-> "string", value |-> jwt]

\* The protocol response (OAuth2Server.Response) an operation fills in.
NewResponse == [present |-> TRUE, status |-> 200, headers |-> {}, body |-> Unsent]
\* authenticate hands null to handleError in its place.
NullResponse == [present |-> FALSE, status |-> 0, headers |-> {}, body |-> Unsent]

\* The transport side of one request: res (status, headers, body, redirect),
\* res.locals.oauth, the calls of next, and the order of all of these.
NoLocals == [type |-> "none"]
NewTransport ==
  [status |-> 0, headers |-> {}, body |-> Unsent, location |-> "",
   locals |-> NoLocals, next |-> <<>>, ops |-> <<>>]

HeaderNames(hs) == {h[1] : h \in hs}
HeaderValue(hs, name) ==
  IF name \in HeaderNames(hs) THEN (CHOOSE h \in hs : h[1] = name)[2] ELSE ""

\* res.set(headers)
ResSet(tr, hs) ==
  [tr EXCEPT !.headers = {h \in @ : h[1] \notin HeaderNames(hs)} \cup hs,
             !.ops = Append(@, "set")]
\* res.status(code)
ResStatus(tr, code) == [tr EXCEPT !.status = code, !.ops = Append(@, "status")]
\* res.send(body)
ResSend(tr, body) == [tr EXCEPT !.body = body, !.ops = Append(@, "send")]
\* res.redirect(location)
ResRedirect(tr, location) ==
  [tr EXCEPT !.status = 302, !.location = location, !.ops = Append(@, "redirect")]
\* res.locals.oauth = value
SetLocals(tr, value) == [tr EXCEPT !.locals = value, !.ops = Append(@, "locals")]
\* next() is recorded as next(OK); next(e) hands the failure e to the external handler.
CallNext(tr, arg) == [tr EXCEPT !.next = Append(@, arg), !.ops = Append(@, "next")]

\* --------------------------------------------------------- response, error
\* handleResponse without the delete of response.headers.location.
handleResponse_KeepsLocation(tr, response) ==
  IF response.status = 302
    THEN ResRedirect(ResSet(tr, response.headers),
                     HeaderValue(response.headers, "location"))
    ELSE ResSend(ResStatus(ResSet(tr, response.headers), response.status),
                 response.body)

handleResponse(tr, response) ==
  IF response.status = 302
    THEN LET location == HeaderValue(response.headers, "location")
             headers == {h \in response.headers : h[1] # "location"}
         IN ResRedirect(ResSet(tr, headers), location)
    ELSE ResSend(ResStatus(ResSet(tr, response.headers), response.status),
                 response.body)

\* --------------------------------------------------------------- state
VARIABLES
  useErrorHandler,     \* this.useErrorHandler
  continueMiddleware,  \* this.continueMiddleware
  serverOptions,       \* the options CustomOAuth2Server was constructed with
  clock,               \* wall clock
  codes,               \* Store: authorization codes, codes[c] is the code of value c
  tokens,              \* Store: persisted access/refresh token records
  rq,                  \* the requests: their input, progress and transport side
  gql,                 \* a query of the Application object: its inputs and results
  downstream,          \* what a call of next does: it returns, or it throws
  probe                \* one application of handleResponse or of the token options

vars == <<useErrorHandler, continueMiddleware, serverOptions, clock, codes, tokens, rq, gql,
          downstream, probe>>

\* handleError without the return after the empty challenge reply.
handleError_NoReturn(e, tr, response) ==
  IF useErrorHandler = TRUE
    THEN CallNext(tr, e)
    ELSE LET t1 == IF response.present THEN ResSet(tr, response.headers) ELSE tr
             t2 == ResStatus(t1, ErrorCode(e))
             t3 == IF e = "UnauthorizedRequest"
                     THEN ResSend(ResSet(t2, {<<"WWW-Authenticate", "Bearer realm=\"service\"">>}),
                                  EmptyBody)
                     ELSE t2
         IN ResSend(t3, ErrorBody(e))

\* handleError without the else: it answers after handing the failure on.
handleError_NoElse(e, tr, response) ==
  LET t0 == IF useErrorHandler = TRUE THEN CallNext(tr, e) ELSE tr
      t1 == IF response.present THEN ResSet(t0, response.headers) ELSE t0
      t2 == ResStatus(t1, ErrorCode(e))
  IN IF e = "UnauthorizedRequest"
       THEN ResSend(ResSet(t2, {<<"WWW-Authenticate", "Bearer realm=\"service\"">>}),
                    EmptyBody)
       ELSE ResSend(t2, ErrorBody(e))

handleError(e, tr, response) ==
  IF useErrorHandler = TRUE
    THEN CallNext(tr, e)
    ELSE LET t1 == IF response.present THEN ResSet(tr, response.headers) ELSE tr
             t2 == ResStatus(t1, ErrorCode(e))
         IN IF e = "UnauthorizedRequest"
              THEN ResSend(ResSet(t2, {<<"WWW-Authenticate", "Bearer realm=\"service\"">>}),
                           EmptyBody)
              ELSE ResSend(t2, ErrorBody(e))

\* ------------------------------------------------------------- requests
Requests == 1..MaxRequests

NoInput ==
  [remoteUser |-> NoUser, clientId |-> "", clientSecret |-> "", redirectUri |-> "",
   scope |-> "", grantType |-> "", code |-> 0, callOptions |-> NoOptions, bearer |-> NoJwt]

IdleRequest ==
  [kind |-> "none", pc |-> "idle", inp |-> NoInput, options |-> NoOptions,
   held |-> 0, outcome |-> Pending, tr |-> NewTransport]

\* No query of the Application object.
NoQuery == [state |-> "none"]
\* No application of a pure function.
NoProbe == [state |-> "none"]

\* new OAuthServer(options): the flags are normalised to booleans; the options
\* left are those of CustomOAuth2Server (the exported server sets none).
Init ==
  /\ \E raw \in JsFlagValues : useErrorHandler = Truthy(raw)
  /\ \E raw \in JsFlagValues : continueMiddleware = Truthy(raw)
  /\ serverOptions = NoOptions
  /\ clock = 0
  /\ codes = <<>>
  /\ tokens = <<>>
  /\ rq = [r \in Requests |-> IdleRequest]
  /\ gql = NoQuery
  /\ downstream = "returns"
  /\ probe = NoProbe

\* Requests arrive one after the other; their handling may overlap.
Arrives(r) ==
  /\ rq[r].pc = "idle"
  /\ IF r = 1 THEN TRUE ELSE rq[r - 1].pc # "idle"

\* ------------------------------------------------------------ authorize
\* handle without the signed-in check.
authorizeAuthenticateHandler_NoCheck(req) == [error |-> OK, user |-> req.remoteUser]

\* authorizeAuthenticateHandler.handle(req): the principal, or a failure.
authorizeAuthenticateHandler(req) ==
  IF req.remoteUser = NoUser
    THEN [error |-> "UnauthorizedRequest", user |-> NoUser]
    ELSE [error |-> OK, user |-> req.remoteUser]

\* AuthorizeCheck matching the redirect URI by prefix.
AuthorizeCheck_PrefixMatch(req) ==
  LET principal == authorizeAuthenticateHandler(req)
  IN IF principal.error # OK THEN principal.error
     ELSE IF req.clientId # Client.id THEN "InvalidClient"
     ELSE IF req.redirectUri \notin
               Client.redirectUris \cup {u \o "/evil" : u \in Client.redirectUris}
       THEN "InvalidRequest"
     ELSE OK

\* Grant Engine.authorize up to the Store write: the failure, or OK.
AuthorizeCheck(req) ==
  LET principal == authorizeAuthenticateHandler(req)
  IN IF principal.error # OK THEN principal.error
     ELSE IF req.clientId # Client.id THEN "InvalidClient"
     ELSE IF req.redirectUri \notin Client.redirectUris THEN "InvalidRequest"
     ELSE OK

\* The code persisted for an authorize request at instant now.
NewCode(req, now) ==
  [client |-> req.clientId, user |-> authorizeAuthenticateHandler(req).user,
   redirectUri |-> req.redirectUri, scope |-> req.scope,
   expiresAt |-> now + AuthorizationCodeLifetime, consumed |-> FALSE]

\* The redirect the engine answers a successful authorize with.
AuthorizeResponse(req, c) ==
  [NewResponse EXCEPT !.status = 302,
     !.headers = {<<"location", req.redirectUri \o "?code=" \o ToString(c)>>}]

\* The promise chain of the authorization middleware after server.authorize:
\* tap (attach, next), then handleResponse; what the tap throws goes to catch.
AuthorizeChain(tr, outcome, c, response) ==
  IF outcome = OK
    THEN LET t1 == SetLocals(tr, [type |-> "code", code |-> c])
             t2 == IF continueMiddleware THEN CallNext(t1, OK) ELSE t1
         IN IF continueMiddleware /\ downstream = "throws"
              THEN handleError(DownstreamError, t2, response)
              ELSE handleResponse(t2, response)
    ELSE handleError(outcome, tr, response)

\* The authorize requests tried: with and without principal, for the registered
\* and for an unknown client, and with a redirect URI that only extends a
\* registered one.
AuthorizeInputs ==
  {[NoInput EXCEPT !.remoteUser = u, !.clientId = cid, !.redirectUri = "https://x/cb",
                   !.scope = "read"] :
     u \in {NoUser, Principal}, cid \in {Client.id, "unknown"}}
  \cup
  {[NoInput EXCEPT !.remoteUser = Principal, !.clientId = Client.id,
                   !.redirectUri = "https://x/cb/evil", !.scope = "read"]}

\* Every combination of principal, client, redirect URI and scope.
AllAuthorizeInputs ==
  {[NoInput EXCEPT !.remoteUser = u, !.clientId = cid, !.redirectUri = uri, !.scope = sc] :
     u \in {NoUser, Principal}, cid \in {Client.id, "unknown"},
     uri \in {"https://x/cb", "https://x/cb/evil"}, sc \in {"read", "write"}}

\* The authorization middleware serving request r with one of inputs.
AuthorizeOf(r, inputs) ==
  /\ Arrives(r)
  /\ \E req \in inputs :
       LET outcome == AuthorizeCheck(req)
           c == Len(codes) + 1
           response == IF outcome = OK THEN AuthorizeResponse(req, c) ELSE NewResponse
       IN /\ codes' = IF outcome = OK THEN Append(codes, NewCode(req, clock)) ELSE codes
          /\ rq' = [rq EXCEPT ![r] =
                      [@ EXCEPT !.kind = "authorize", !.pc = "done", !.inp = req,
                                !.outcome = outcome,
                                !.tr = AuthorizeChain(@, outcome, c, response)]]
  /\ UNCHANGED <<useErrorHandler, continueMiddleware, serverOptions, clock, tokens, gql,
               downstream, probe>>

Authorize(r) == AuthorizeOf(r, AuthorizeInputs)

\* ---------------------------------------------------------------- token
\* CustomTokenHandler.getTokenType(model).valueOf() at instant now: the signed
\* token, or the failure of reading model.user.id of a record without user.
getTokenType(model, now) ==
  IF model.user = NoUser
    THEN [error |-> "ServerError", value |-> NoJwt]
    ELSE [error |-> OK,
          value |-> [access_token |-> model.accessToken, sub |-> model.user,
                     iat |-> now, exp |-> now + TOKEN_EXPIRATION_SESSION,
                     key |-> jwtSecret]]

\* Client authentication (for the grant types options requires it for) and the
\* client's allowed grant types.
ClientCheck(req, options) ==
  IF req.clientId # Client.id THEN "InvalidClient"
  ELSE IF /\ req.grantType \notin options.requireClientAuthentication
          /\ req.clientSecret # Client.secret THEN "InvalidClient"
  ELSE IF req.grantType \notin Client.grants THEN "UnsupportedGrantType"
  ELSE OK

\* CodeCheck without the comparison of expires-at with the clock.
CodeCheck_NoExpiry(cs, req, now) ==
  LET c == req.code
  IN IF c \notin DOMAIN cs THEN "InvalidGrant"
     ELSE IF cs[c].consumed THEN "InvalidGrant"
     ELSE IF cs[c].client # req.clientId THEN "InvalidGrant"
     ELSE IF cs[c].redirectUri # req.redirectUri THEN "InvalidGrant"
     ELSE OK

\* Store.getAuthorizationCode and the grant's validation of what it returns.
CodeCheck(cs, req, now) ==
  LET c == req.code
  IN IF c \notin DOMAIN cs THEN "InvalidGrant"
     ELSE IF cs[c].consumed THEN "InvalidGrant"
     ELSE IF now > cs[c].expiresAt THEN "InvalidGrant"
     ELSE IF cs[c].client # req.clientId THEN "InvalidGrant"
     ELSE IF cs[c].redirectUri # req.redirectUri THEN "InvalidGrant"
     ELSE OK

\* revokeAuthorizationCode that reports success whatever the flag was.
revokeAuthorizationCode_NotExclusive(cs, c) ==
  [revoked |-> TRUE, codes |-> [cs EXCEPT ![c].consumed = TRUE]]

\* Store.revokeAuthorizationCode: the exclusive check-and-set of the consumed flag.
revokeAuthorizationCode(cs, c) ==
  IF cs[c].consumed
    THEN [revoked |-> FALSE, codes |-> cs]
    ELSE [revoked |-> TRUE, codes |-> [cs EXCEPT ![c].consumed = TRUE]]

\* The token record the grant persists (Store.saveToken) at instant now.
NewToken(r, now) ==
  LET req == rq[r].inp
      byCode == req.grantType = "authorization_code"
      id == Len(tokens) + 1
  IN [accessToken |-> id, client |-> req.clientId,
      user |-> IF byCode THEN codes[rq[r].held].user ELSE NoUser,
      accessTokenExpiresAt |-> now + rq[r].options.accessTokenLifetime,
      refreshToken |-> IF byCode THEN id ELSE 0]

\* The protocol response of a successful exchange: the body is valueOf().
TokenResponse(jwt) ==
  [NewResponse EXCEPT !.body = StringBody(jwt),
     !.headers = {<<"Cache-Control", "no-store">>, <<"Pragma", "no-cache">>}]

\* The token chain calling next whatever continueMiddleware says.
TokenChain_AlwaysContinues(tr, outcome, token, response) ==
  IF outcome = OK
    THEN LET t == CallNext(SetLocals(tr, [type |-> "token", token |-> token]), OK)
         IN IF downstream = "throws"
              THEN handleError(DownstreamError, t, response)
              ELSE handleResponse(t, response)
    ELSE handleError(outcome, tr, response)

\* The promise chain of the token middleware after server.token: tap (attach,
\* next), then handleResponse; what the tap throws goes to catch.
TokenChain(tr, outcome, token, response) ==
  IF outcome = OK
    THEN LET t1 == SetLocals(tr, [type |-> "token", token |-> token])
             t2 == IF continueMiddleware THEN CallNext(t1, OK) ELSE t1
         IN IF continueMiddleware /\ downstream = "throws"
              THEN handleError(DownstreamError, t2, response)
              ELSE handleResponse(t2, response)
    ELSE handleError(outcome, tr, response)

NoToken ==
  [accessToken |-> 0, client |-> "", user |-> NoUser, accessTokenExpiresAt |-> 0,
   refreshToken |-> 0]

\* The request fails with e: the chain runs its catch branch.
TokenFails(r, e) ==
  rq' = [rq EXCEPT ![r] = [@ EXCEPT !.pc = "done", !.outcome = e,
                                   !.tr = TokenChain(@, e, NoToken, NewResponse)]]

\* The token requests tried: the authorization_code grant with the right secret,
\* with and without a per-call lifetime, for every issued code and for one that
\* was never issued; the client_credentials grant; each grant with a wrong secret.
TokenInputs ==
  {[NoInput EXCEPT !.clientId = Client.id, !.clientSecret = Client.secret,
                   !.grantType = "authorization_code", !.code = c,
                   !.redirectUri = "https://x/cb", !.callOptions = o] :
     c \in 1..(Len(codes) + 1),
     o \in {NoOptions, [accessTokenLifetime |-> PerCallLifetime]}}
  \cup
  {[NoInput EXCEPT !.clientId = Client.id, !.clientSecret = Client.secret,
                   !.grantType = "client_credentials"],
   [NoInput EXCEPT !.clientId = Client.id, !.clientSecret = "wrong",
                   !.grantType = "authorization_code", !.code = 1,
                   !.redirectUri = "https://x/cb"],
   [NoInput EXCEPT !.clientId = Client.id, !.clientSecret = "wrong",
                   !.grantType = "client_credentials"]}

\* CustomOAuth2Server.token: the options in effect, then the handler's client
\* step and, for the authorization_code grant, the Store read of the code (the
\* clients never change, so the two reads are taken at the same instant).
TokenStartOf(r, inputs) ==
  /\ Arrives(r)
  /\ \E req \in inputs :
       LET started == [rq[r] EXCEPT !.kind = "token", !.inp = req,
                         !.options = TokenOptions(serverOptions, req.callOptions)]
           byCode == req.grantType = "authorization_code"
           e == IF ClientCheck(req, started.options) # OK
                  THEN ClientCheck(req, started.options)
                ELSE IF byCode THEN CodeCheck(codes, req, clock)
                ELSE OK
       IN IF e # OK
            THEN rq' = [rq EXCEPT ![r] =
                          [started EXCEPT !.pc = "done", !.outcome = e,
                             !.tr = TokenChain(@, e, NoToken, NewResponse)]]
            ELSE rq' = [rq EXCEPT ![r] =
                          [started EXCEPT !.pc = IF byCode THEN "consume" ELSE "save",
                                          !.held = IF byCode THEN req.code ELSE 0]]
  /\ UNCHANGED <<useErrorHandler, continueMiddleware, serverOptions, clock, codes, tokens, gql,
               downstream, probe>>

TokenStart(r) == TokenStartOf(r, TokenInputs)

\* authorization_code grant: the Store's atomic consumption of the code.
TokenRevoke(r) ==
  /\ rq[r].pc = "consume"
  /\ LET res == revokeAuthorizationCode(codes, rq[r].held)
     IN /\ codes' = res.codes
        /\ IF res.revoked THEN rq' = [rq EXCEPT ![r].pc = "save"]
           ELSE TokenFails(r, "InvalidGrant")
  /\ UNCHANGED <<useErrorHandler, continueMiddleware, serverOptions, clock, tokens, gql, downstream, probe>>

\* The Store write of the tokens, the signing of the bearer token, and the
\* rest of the middleware's chain.
TokenSave(r) ==
  /\ rq[r].pc = "save"
  /\ LET token == NewToken(r, clock)
         signed == getTokenType(token, clock)
         response == IF signed.error = OK THEN TokenResponse(signed.value) ELSE NewResponse
     IN /\ tokens' = Append(tokens, token)
        /\ rq' = [rq EXCEPT ![r] =
                    [@ EXCEPT !.pc = "done", !.outcome = signed.error,
                              !.tr = TokenChain(@, signed.error, token, response)]]
  /\ UNCHANGED <<useErrorHandler, continueMiddleware, serverOptions, clock, codes, gql, downstream, probe>>

\* --------------------------------------------------------- authenticate
\* The bearer tokens the server has handed out.
Issued ==
  {rq[r].tr.body.value :
     r \in {x \in Requests : /\ rq[x].kind = "token" /\ rq[x].pc = "done"
                              /\ rq[x].outcome = OK /\ rq[x].tr.body.type = "string"}}

\* A well-formed token signed with a key that is not the server's.
Forged(jwt) == [jwt EXCEPT !.key = otherKey]
SampleClaims ==
  [access_token |-> 1, sub |-> Principal, iat |-> 0, exp |-> MaxClock + 1, key |-> jwtSecret]

\* Token Codec.decode at instant now: signature, then expiry.
decode(jwt, now) ==
  IF jwt.key # jwtSecret THEN "InvalidToken"
  ELSE IF now >= jwt.exp THEN "TokenExpired"
  ELSE OK

\* The Store's record of the access token a bearer token wraps.
TokenRecords(jwt) == {i \in DOMAIN tokens : tokens[i].accessToken = jwt.access_token}

\* Grant Engine.authenticate: the failure, or OK.
AuthenticateCheck(jwt, now) ==
  IF jwt = NoJwt THEN "UnauthorizedRequest"
  ELSE IF decode(jwt, now) # OK THEN decode(jwt, now)
  ELSE IF TokenRecords(jwt) = {} THEN "InvalidToken"
  ELSE OK

\* The authentication chain with finally in place of tap.
AuthenticateChain_Finally(tr, outcome, token) ==
  LET t == CallNext(SetLocals(tr, [type |-> "token", token |-> token]), OK)
  IN IF outcome = OK THEN t ELSE handleError(outcome, t, NullResponse)

\* The promise chain of the authentication middleware after
\* server.authenticate: tap (attach, next); what the tap throws goes to catch.
AuthenticateChain(tr, outcome, token) ==
  IF outcome = OK
    THEN LET t == CallNext(SetLocals(tr, [type |-> "token", token |-> token]), OK)
         IN IF downstream = "throws"
              THEN handleError(DownstreamError, t, NullResponse)
              ELSE t
    ELSE handleError(outcome, tr, NullResponse)

AuthenticateInputs ==
  {[NoInput EXCEPT !.bearer = b] :
     b \in {NoJwt, Forged(SampleClaims)} \cup Issued}

\* The authentication middleware serving request r with one of inputs.
AuthenticateOf(r, inputs) ==
  /\ Arrives(r)
  /\ \E req \in inputs :
       LET e == AuthenticateCheck(req.bearer, clock)
           token == IF e = OK THEN tokens[CHOOSE i \in TokenRecords(req.bearer) : TRUE]
                    ELSE NoToken
       IN rq' = [rq EXCEPT ![r] =
                   [@ EXCEPT !.kind = "authenticate", !.pc = "done", !.inp = req,
                             !.outcome = e,
                             !.tr = AuthenticateChain(@, e, token)]]
  /\ UNCHANGED <<useErrorHandler, continueMiddleware, serverOptions, clock, codes, tokens, gql,
               downstream, probe>>

Authenticate(r) == AuthenticateOf(r, AuthenticateInputs)

\* Time passes while there are requests left to observe it.
Tick ==
  /\ clock < MaxClock
  /\ \E r \in Requests : rq[r].pc # "done"
  /\ clock' = clock + 1
  /\ UNCHANGED <<useErrorHandler, continueMiddleware, serverOptions, codes, tokens, rq, gql, downstream, probe>>

\* ---------------------------------------------- Application (GraphQL)
\* What a resolver returns when it returns nothing.
Empty == "null"
SignedOut == 0

OwnerGatedFields == {"apiKey", "clientId", "clientSecret", "callbackUrl"}

\* req.remoteUser && req.remoteUser.CollectiveId === application.CollectiveId
apiKey(application, req) ==
  IF req.remoteUser # SignedOut /\ req.remoteUser = application.CollectiveId
    THEN application.apiKey ELSE Empty

clientId(application, req) ==
  IF req.remoteUser # SignedOut /\ req.remoteUser = application.CollectiveId
    THEN application.clientId ELSE Empty

\* clientSecret resolved without the owner check.
clientSecret_Ungated(application, req) == application.clientSecret

clientSecret(application, req) ==
  IF req.remoteUser # SignedOut /\ req.remoteUser = application.CollectiveId
    THEN application.clientSecret ELSE Empty

callbackUrl(application, req) ==
  IF req.remoteUser # SignedOut /\ req.remoteUser = application.CollectiveId
    THEN application.callbackUrl ELSE Empty

\* The owner-gated fields of one Application as a query of req sees them.
Resolved(application, req) ==
  [apiKey |-> apiKey(application, req), clientId |-> clientId(application, req),
   clientSecret |-> clientSecret(application, req),
   callbackUrl |-> callbackUrl(application, req)]

Accounts == {1, 2}
Stored == {"v1", "v2"}
Applications ==
  [CollectiveId : Accounts, apiKey : Stored, clientId : Stored,
   clientSecret : Stored, callbackUrl : Stored]

\* A query of two applications of one owning account by one requester.
InitApplication ==
  /\ useErrorHandler = FALSE
  /\ continueMiddleware = FALSE
  /\ serverOptions = NoOptions
  /\ clock = 0
  /\ codes = <<>>
  /\ tokens = <<>>
  /\ rq = [r \in Requests |-> IdleRequest]
  /\ downstream = "returns"
  /\ probe = NoProbe
  /\ \E a \in Applications, b \in Applications, u \in {SignedOut} \cup Accounts :
       /\ a.CollectiveId = b.CollectiveId
       /\ gql = [state |-> "asked", application |-> a, other |-> b,
                 req |-> [remoteUser |-> u]]

Resolve ==
  /\ gql.state = "asked"
  /\ gql' = [state |-> "resolved", application |-> gql.application,
             other |-> gql.other, req |-> gql.req,
             out |-> Resolved(gql.application, gql.req),
             outOther |-> Resolved(gql.other, gql.req)]
  /\ UNCHANGED <<useErrorHandler, continueMiddleware, serverOptions, clock, codes, tokens, rq,
               downstream, probe>>

NextApplication == Resolve

SpecApplication == InitApplication /\ [][NextApplication]_vars

\* -------------------------------------------------- token options alone
\* An options object that sets option k to one of vs, or does not set it.
Choices(k, vs) == {NoOptions} \cup {[x \in {k} |-> v] : v \in vs}

\* The options objects a server is constructed with or a token call is given:
\* each option absent or set.
OptionsObjects ==
  {assign(assign(assign(a, b), c), d) :
     a \in Choices("accessTokenLifetime", {1, PerCallLifetime}),
     b \in Choices("refreshTokenLifetime", {6, 24}),
     c \in Choices("allowExtendedTokenAttributes", BOOLEAN),
     d \in Choices("requireClientAuthentication", {{"password"}, {"client_credentials"}})}

InitOptions ==
  /\ useErrorHandler = FALSE
  /\ continueMiddleware = FALSE
  /\ clock = 0
  /\ codes = <<>>
  /\ tokens = <<>>
  /\ rq = [r \in Requests |-> IdleRequest]
  /\ gql = NoQuery
  /\ downstream = "returns"
  /\ serverOptions \in OptionsObjects
  /\ \E callOpts \in OptionsObjects : probe = [state |-> "options", options |-> callOpts]

\* The first statement of CustomOAuth2Server.token.
AssignOptions ==
  /\ probe.state = "options"
  /\ probe' = [state |-> "assigned", options |-> probe.options,
               inEffect |-> TokenOptions(serverOptions, probe.options)]
  /\ UNCHANGED <<useErrorHandler, continueMiddleware, serverOptions, clock, codes, tokens, rq,
               gql, downstream>>

NextOptions == AssignOptions

SpecOptions == InitOptions /\ [][NextOptions]_vars

\* ------------------------------------------------- handleResponse alone
\* The protocol responses handleResponse is applied to: each status with every
\* set of headers, with and without location, and the bodies of both kinds.
ResponseHeaders ==
  {<<"location", "https://x/cb?code=1">>, <<"Cache-Control", "no-store">>,
   <<"Pragma", "no-cache">>, <<"X-Request-Id", "7">>}
Responses ==
  [present : {TRUE}, status : {200, 302, 400}, headers : SUBSET ResponseHeaders,
   body : {Unsent, StringBody(SampleClaims), ErrorBody("InvalidRequest")}]

InitResponse ==
  /\ useErrorHandler = FALSE
  /\ continueMiddleware = FALSE
  /\ serverOptions = NoOptions
  /\ clock = 0
  /\ codes = <<>>
  /\ tokens = <<>>
  /\ rq = [r \in Requests |-> IdleRequest]
  /\ gql = NoQuery
  /\ downstream = "returns"
  /\ \E response \in Responses :
       probe = [state |-> "response", response |-> response, tr |-> NewTransport]

HandleResponse ==
  /\ probe.state = "response"
  /\ probe' = [probe EXCEPT !.state = "responded",
                            !.tr = handleResponse(@, probe.response)]
  /\ UNCHANGED <<useErrorHandler, continueMiddleware, serverOptions, clock, codes, tokens, rq,
               gql, downstream>>

NextResponse == HandleResponse

SpecResponse == InitResponse /\ [][NextResponse]_vars

\* ------------------------- the middleware before a downstream handler
\* The server in front of a downstream handler that returns or that throws.
InitDownstream ==
  /\ \E raw \in JsFlagValues : useErrorHandler = Truthy(raw)
  /\ \E raw \in JsFlagValues : continueMiddleware = Truthy(raw)
  /\ serverOptions = NoOptions
  /\ clock = 0
  /\ codes = <<>>
  /\ tokens = <<>>
  /\ rq = [r \in Requests |-> IdleRequest]
  /\ gql = NoQuery
  /\ downstream \in {"returns", "throws"}
  /\ probe = NoProbe

\* One request that succeeds and one that fails for each endpoint.
DownstreamAuthorizeInputs ==
  {[NoInput EXCEPT !.remoteUser = u, !.clientId = Client.id,
                   !.redirectUri = "https://x/cb", !.scope = "read"] :
     u \in {NoUser, Principal}}
DownstreamTokenInputs ==
  {[NoInput EXCEPT !.clientId = Client.id, !.clientSecret = Client.secret,
                   !.grantType = "authorization_code", !.code = c,
                   !.redirectUri = "https://x/cb"] :
     c \in 1..(Len(codes) + 1)}

NextDownstream ==
  \/ \E r \in Requests : AuthorizeOf(r, DownstreamAuthorizeInputs)
  \/ \E r \in Requests : TokenStartOf(r, DownstreamTokenInputs)
  \/ \E r \in Requests : TokenRevoke(r)
  \/ \E r \in Requests : TokenSave(r)
  \/ \E r \in Requests : AuthenticateOf(r, AuthenticateInputs)

SpecDownstream == InitDownstream /\ [][NextDownstream]_vars

\* ------------------------------------- the token endpoint, every grant type
\* A signed-in authorize request for the registered client and URI.
ValidAuthorizeInputs ==
  {[NoInput EXCEPT !.remoteUser = Principal, !.clientId = Client.id,
                   !.redirectUri = "https://x/cb", !.scope = "read"]}

\* Token requests of every grant type with the right and with a wrong secret,
\* under the default options; those of the authorization_code grant present
\* an issued code or one that was never issued.
GrantInputs ==
  {[NoInput EXCEPT !.clientId = Client.id, !.clientSecret = secret,
                   !.grantType = "authorization_code", !.code = c,
                   !.redirectUri = "https://x/cb"] :
     c \in 1..(Len(codes) + 1), secret \in {Client.secret, "wrong"}}
  \cup
  {[NoInput EXCEPT !.clientId = Client.id, !.clientSecret = secret, !.grantType = g] :
     g \in GrantTypes \ {"authorization_code"}, secret \in {Client.secret, "wrong"}}

NextGrants ==
  \/ \E r \in Requests : AuthorizeOf(r, ValidAuthorizeInputs)
  \/ \E r \in Requests : TokenStartOf(r, GrantInputs)
  \/ \E r \in Requests : TokenRevoke(r)
  \/ \E r \in Requests : TokenSave(r)

SpecGrants == Init /\ [][NextGrants]_vars

\* The authorization endpoint alone, asked with every combination of inputs.
NextAuthorize == \E r \in Requests : AuthorizeOf(r, AllAuthorizeInputs)

SpecAuthorize == Init /\ [][NextAuthorize]_vars

Next ==
  \/ \E r \in Requests : Authorize(r)
  \/ \E r \in Requests : TokenStart(r)
  \/ \E r \in Requests : TokenRevoke(r)
  \/ \E r \in Requests : TokenSave(r)
  \/ \E r \in Requests : Authenticate(r)
  \/ Tick

Spec == Init /\ [][Next]_vars

\* ---------------------------------------------------------------- claims
Done(r) == rq[r].pc = "done"
Succeeded(r) == Done(r) /\ rq[r].outcome = OK
Failed(r) == Done(r) /\ rq[r].outcome \in ErrorKinds
OfKind(k) == {r \in Requests : rq[r].kind = k}
\* A step of request r.
Steps(r) == rq'[r] # rq[r]
\* The middleware's writes to the transport response.
Writes(tr) == {i \in DOMAIN tr.ops : tr.ops[i] \in {"set", "status", "send", "redirect"}}
ConsumedCodes == {c \in DOMAIN codes : codes[c].consumed}
\* A token request that presents code c with the client's secret.
Presents(req, c) ==
  /\ req.grantType = "authorization_code"
  /\ req.code = c
  /\ req.clientSecret = Client.secret

\* C1: of the token requests that read the same valid authorization code
\* (concurrent redemptions), once all have ended exactly one has succeeded and
\* every other has failed with InvalidGrant; no code has two successful
\* redemptions, and no more principal-bound token records are persisted than
\* codes are consumed.
C1_ExactlyOneRedemption ==
  /\ \A c \in DOMAIN codes :
       LET holders == {r \in OfKind("token") : rq[r].held = c}
       IN (holders # {} /\ \A r \in holders : Done(r))
            => /\ Cardinality({r \in holders : rq[r].outcome = OK}) = 1
               /\ \A r \in holders : rq[r].outcome \in {OK, "InvalidGrant"}
  /\ \A c \in DOMAIN codes :
       Cardinality({r \in OfKind("token") : Succeeded(r) /\ rq[r].inp.code = c}) <= 1
  /\ Cardinality({i \in DOMAIN tokens : tokens[i].user # NoUser})
       <= Cardinality(ConsumedCodes)

C1_Witness ==
  \E r1 \in OfKind("token"), r2 \in OfKind("token") :
    /\ r1 # r2 /\ Done(r1) /\ Done(r2)
    /\ rq[r1].held # 0 /\ rq[r1].held = rq[r2].held

\* C2: once code c is consumed, a step of any other token request presenting c
\* never reaches the token write, ends only with InvalidGrant, and persists no
\* token; at most one request ever holds the consumption of a code.
C2_ConsumedAtMostOnce ==
  /\ [](\A c \in DOMAIN codes :
          Cardinality({r \in OfKind("token") :
                         rq[r].held = c /\ (rq[r].pc = "save" \/ Succeeded(r))}) <= 1)
  /\ [][\A r \in Requests : \A c \in ConsumedCodes :
          (/\ Steps(r)
           /\ rq[r].pc \in {"idle", "consume"}
           /\ rq'[r].kind = "token"
           /\ Presents(rq'[r].inp, c))
            => /\ rq'[r].pc # "save"
               /\ rq'[r].pc = "done" => rq'[r].outcome = "InvalidGrant"
               /\ tokens' = tokens]_vars

C2_Witness ==
  \E r1 \in OfKind("token"), r2 \in OfKind("token") : \E c \in ConsumedCodes :
    /\ r1 < r2
    /\ Succeeded(r1) /\ rq[r1].held = c
    /\ Done(r2) /\ rq[r2].held = 0 /\ Presents(rq[r2].inp, c)
    /\ rq[r2].inp = rq[r1].inp
    /\ rq[r2].outcome = "InvalidGrant"
    /\ clock <= codes[c].expiresAt

\* C3: a token exchange is all-or-nothing: the step that ends a token request in
\* failure persists no token and the request holds no consumed code; the step
\* that ends it in success persists its token and its code (if any) is consumed.
C3_AllOrNothing ==
  [][\A r \in Requests :
       (Steps(r) /\ rq'[r].kind = "token" /\ rq'[r].pc = "done")
         => IF rq'[r].outcome = OK
              THEN /\ Len(tokens') = Len(tokens) + 1
                   /\ rq'[r].held # 0 => codes'[rq'[r].held].consumed
              ELSE /\ tokens' = tokens
                   /\ codes' = codes
                   /\ rq[r].pc # "save"]_vars

\* C4: an authorize request without principal fails with UnauthorizedRequest and
\* attaches no code; every persisted code belongs to a successful authorize
\* request and is bound to a principal.
C4_AuthorizeNeedsPrincipal ==
  /\ \A r \in OfKind("authorize") :
       (Done(r) /\ rq[r].inp.remoteUser = NoUser)
         => /\ rq[r].outcome = "UnauthorizedRequest"
            /\ rq[r].tr.locals = NoLocals
  /\ Len(codes) = Cardinality({r \in OfKind("authorize") : Succeeded(r)})
  /\ \A c \in DOMAIN codes : codes[c].user # NoUser

C4_Witness ==
  \E r \in OfKind("authorize") : Done(r) /\ rq[r].inp.remoteUser = NoUser

\* C5: every owner-gated field resolves to the stored value for a signed-in
\* requester of the owning account and to empty for anyone else; a non-owner
\* sees the same for two applications that differ only in these fields.
C5_OwnerGated ==
  gql.state = "resolved" =>
    LET a == gql.application
        u == gql.req.remoteUser
        owner == u # SignedOut /\ u = a.CollectiveId
    IN /\ \A f \in OwnerGatedFields : gql.out[f] = IF owner THEN a[f] ELSE Empty
       /\ ~owner => gql.out = gql.outOther

C5_Witness ==
  /\ gql.state = "resolved"
  /\ gql.req.remoteUser # SignedOut
  /\ gql.req.remoteUser # gql.application.CollectiveId
  /\ \A f \in OwnerGatedFields : gql.application[f] # gql.other[f]

\* C6: a bearer token of an exchange that reported the lifetime T authenticates
\* at every instant before issue-time + T (the expires-at of its record) and
\* fails with TokenExpired at every instant after it.
C6_ExpiresWithReportedLifetime ==
  [][\A r \in Requests :
       (/\ rq[r].pc = "idle"
        /\ rq'[r].kind = "authenticate"
        /\ rq'[r].inp.bearer \in Issued)
         => LET jwt == rq'[r].inp.bearer
                record == tokens[CHOOSE i \in TokenRecords(jwt) : TRUE]
                expiresAt == record.accessTokenExpiresAt
            IN /\ clock < expiresAt => rq'[r].outcome = OK
               /\ clock > expiresAt => rq'[r].outcome = "TokenExpired"]_vars

\* C7: authenticate on a token signed with another key fails with InvalidToken,
\* attaches nothing to the request context and never calls next without error.
C7_WrongKeyRejected ==
  \A r \in OfKind("authenticate") :
    (Done(r) /\ rq[r].inp.bearer.key = otherKey)
      => /\ rq[r].outcome = "InvalidToken"
         /\ rq[r].tr.locals = NoLocals
         /\ \A i \in DOMAIN rq[r].tr.next : rq[r].tr.next[i] # OK

C7_Witness ==
  \E r \in OfKind("authenticate") : Done(r) /\ rq[r].inp.bearer.key = otherKey

C9_ErrorBoundary ==
  ~useErrorHandler =>
    \A r \in Requests :
      Failed(r) =>
        LET e == rq[r].outcome
            tr == rq[r].tr
        IN /\ tr.status = ErrorCode(e)
           /\ tr.next = <<>>
           /\ IF e = "UnauthorizedRequest"
                THEN /\ <<"WWW-Authenticate", "Bearer realm=\"service\"">> \in tr.headers
                     /\ tr.body = [type |-> "empty"]
                ELSE /\ tr.body = [type |-> "json", error |-> e, error_description |-> e]
                     /\ "WWW-Authenticate" \notin HeaderNames(tr.headers)

C9_Witness ==
  /\ ~useErrorHandler
  /\ \E r \in Requests : Failed(r) /\ rq[r].outcome = "UnauthorizedRequest"
  /\ \E r \in Requests : Failed(r) /\ rq[r].outcome # "UnauthorizedRequest"

\* C10: with useErrorHandler on every failure is handed to next(error) and the
\* middleware writes no status, no header and no body.
C10_ExternalErrorHandler ==
  useErrorHandler =>
    \A r \in Requests :
      Failed(r) =>
        /\ rq[r].tr.next = <<rq[r].outcome>>
        /\ rq[r].tr.status = 0
        /\ rq[r].tr.headers = {}
        /\ rq[r].tr.body = Unsent
        /\ Writes(rq[r].tr) = {}

C10_Witness ==
  /\ useErrorHandler
  /\ \E r \in OfKind("authenticate") : Failed(r) /\ rq[r].outcome = "UnauthorizedRequest"
  /\ \E r \in OfKind("token") : Failed(r)
  /\ \E r \in OfKind("authorize") : Failed(r)

\* C11: handleResponse answers a protocol response of status 302 with a redirect
\* to its location header and writes every other header but not location as a
\* generic header (no status, no body of its own); a protocol response of any
\* other status has all its headers written, location included, and its status
\* and body sent unchanged.
C11_RedirectOrSend ==
  probe.state = "responded" =>
    LET response == probe.response
        tr == probe.tr
    IN IF response.status = 302
         THEN /\ tr.ops = <<"set", "redirect">>
              /\ tr.location = HeaderValue(response.headers, "location")
              /\ "location" \notin HeaderNames(tr.headers)
              /\ tr.headers = {h \in response.headers : h[1] # "location"}
              /\ tr.body = Unsent
         ELSE /\ tr.ops = <<"set", "status", "send">>
              /\ tr.headers = response.headers
              /\ tr.status = response.status
              /\ tr.body = response.body
              /\ tr.location = ""

C11_Witness ==
  /\ probe.state = "responded"
  /\ probe.response.status = 302
  /\ "location" \in HeaderNames(probe.response.headers)
  /\ Cardinality(probe.response.headers) > 1
  /\ probe.tr.location = "https://x/cb?code=1"

\* C12: the body of every successful token response is a JSON object with
\* access_token, token_type "Bearer" and expires_in (refresh_token optional),
\* where access_token is the signed token whose claim is the id of the persisted
\* access-token record and whose subject is the principal of that record.
C12_TokenResponseBody ==
  \A r \in OfKind("token") :
    (Succeeded(r) /\ rq[r].tr.body # Unsent) =>
      LET body == rq[r].tr.body
          record == rq[r].tr.locals.token
      IN /\ body.type = "json"
         /\ {"access_token", "token_type", "expires_in"} \subseteq DOMAIN body
         /\ body.token_type = "Bearer"
         /\ body.access_token.access_token = record.accessToken
         /\ body.access_token.sub = record.user

\* C13: each of the four options in effect for a token call is the value the
\* per-call options set when they set it, otherwise the value the construction
\* options set, otherwise the built-in default; a per-call value wins over both.
C13_OptionPrecedence ==
  probe.state = "assigned" =>
    /\ DOMAIN probe.inEffect = OptionNames
    /\ \A k \in OptionNames :
         probe.inEffect[k] =
           IF k \in DOMAIN probe.options THEN probe.options[k]
           ELSE IF k \in DOMAIN serverOptions THEN serverOptions[k]
           ELSE TokenDefaults[k]

C13_Witness ==
  /\ probe.state = "assigned"
  /\ \E k \in OptionNames :
       /\ k \in DOMAIN probe.options /\ k \in DOMAIN serverOptions
       /\ probe.options[k] # serverOptions[k]
       /\ probe.options[k] # TokenDefaults[k]
       /\ probe.inEffect[k] = probe.options[k]
  /\ \E k \in OptionNames :
       /\ k \notin DOMAIN probe.options /\ k \in DOMAIN serverOptions
       /\ probe.inEffect[k] = serverOptions[k]
  /\ \E k \in OptionNames :
       /\ k \notin DOMAIN probe.options /\ k \notin DOMAIN serverOptions
       /\ probe.inEffect[k] = TokenDefaults[k]

\* C14: an authorize request succeeds only for the registered client and a
\* redirect URI equal to a registered one (one that extends a registered URI
\* fails); a failed authorize persists no code; every persisted code is the
\* code of one successful request and carries that request's client,
\* principal, redirect URI and scope.
C14_ExactRedirectAndBinding ==
  /\ \A r \in OfKind("authorize") :
       Succeeded(r) => /\ rq[r].inp.clientId = Client.id
                       /\ rq[r].inp.redirectUri \in Client.redirectUris
  /\ \A r \in OfKind("authorize") : Failed(r) => rq[r].tr.locals = NoLocals
  /\ Len(codes) = Cardinality({r \in OfKind("authorize") : Succeeded(r)})
  /\ \A c \in DOMAIN codes :
       \E r \in OfKind("authorize") :
         /\ Succeeded(r)
         /\ rq[r].tr.locals = [type |-> "code", code |-> c]
         /\ codes[c].client = rq[r].inp.clientId
         /\ codes[c].user = rq[r].inp.remoteUser
         /\ codes[c].redirectUri = rq[r].inp.redirectUri
         /\ codes[c].scope = rq[r].inp.scope

C14_Witness ==
  /\ \E r \in OfKind("authorize") :
       /\ Failed(r)
       /\ rq[r].inp.remoteUser = Principal /\ rq[r].inp.clientId = Client.id
       /\ rq[r].inp.redirectUri = "https://x/cb/evil"
  /\ \E r1 \in OfKind("authorize"), r2 \in OfKind("authorize") :
       /\ Succeeded(r1) /\ Succeeded(r2)
       /\ rq[r1].inp.scope # rq[r2].inp.scope
  /\ Len(codes) = 2

\* The state of code c among cs at instant now.
CodeState(cs, c, now) ==
  IF cs[c].consumed THEN "Consumed"
  ELSE IF now > cs[c].expiresAt THEN "Expired"
  ELSE "Issued"

\* A step in which request r arrives as a token request presenting code c.
PresentsNow(r, c) ==
  /\ rq[r].pc = "idle"
  /\ rq'[r].kind = "token"
  /\ Presents(rq'[r].inp, c)

C16_RejectedBeforeGrant ==
  [][\A r \in Requests :
       (/\ rq[r].pc = "idle"
        /\ rq'[r].kind = "token"
        /\ serverOptions = NoOptions
        /\ rq'[r].inp.callOptions = NoOptions)
         => LET req == rq'[r].inp
                rejected == IF req.clientSecret # Client.secret THEN "InvalidClient"
                            ELSE IF req.grantType \notin Client.grants
                              THEN "UnsupportedGrantType"
                            ELSE OK
            IN rejected # OK
                 => /\ rq'[r].pc = "done" /\ rq'[r].outcome = rejected
                    /\ rq'[r].held = 0
                    /\ codes' = codes /\ tokens' = tokens]_vars

C16_Witness ==
  \E c \in DOMAIN codes : \E r1 \in OfKind("token"), r2 \in OfKind("token") :
    /\ CodeState(codes, c, clock) = "Issued"
    /\ Done(r1) /\ rq[r1].inp.grantType = "authorization_code" /\ rq[r1].inp.code = c
    /\ rq[r1].inp.clientSecret # Client.secret /\ rq[r1].outcome = "InvalidClient"
    /\ Done(r2) /\ rq[r2].inp.grantType = "password"
    /\ rq[r2].inp.clientSecret = Client.secret /\ rq[r2].outcome = "UnsupportedGrantType"

\* C17: the expiry instant embedded in every bearer token the server hands out
\* equals the expires-at of the persisted access-token record it wraps,
\* whatever lifetime options the token call had.
C17_EnvelopeExpiresWithRecord ==
  \A r \in OfKind("token") :
    (Succeeded(r) /\ rq[r].tr.body # Unsent) =>
      LET jwt == rq[r].tr.body.value
      IN \A i \in TokenRecords(jwt) : jwt.exp = tokens[i].accessTokenExpiresAt

\* C18: for every request of the three middleware, whatever the operation's
\* outcome and whether the downstream handler returns or throws, next is
\* called at most once and the middleware writes no status and no body after
\* a call of next.
C18_NextOnceThenSilent ==
  \A r \in Requests :
    Done(r) =>
      LET tr == rq[r].tr
      IN /\ Len(tr.next) <= 1
         /\ \A i \in DOMAIN tr.ops : \A j \in DOMAIN tr.ops :
              (tr.ops[i] = "next" /\ tr.ops[j] \in {"status", "send", "redirect"})
                => j < i

\* C19: in either mode a successful authenticate attaches the token, then calls
\* next, and writes nothing to the response; a failed one attaches nothing and
\* never calls next without an error.
C19_AuthenticateHandsOver ==
  \A r \in OfKind("authenticate") :
    Done(r) =>
      LET tr == rq[r].tr
      IN IF rq[r].outcome = OK
           THEN /\ Len(tr.ops) >= 2 /\ tr.ops[1] = "locals" /\ tr.ops[2] = "next"
                /\ tr.locals.type = "token"
                /\ tr.next[1] = OK
                /\ Writes(tr) = {}
           ELSE /\ tr.locals = NoLocals
                /\ \A i \in DOMAIN tr.next : tr.next[i] # OK

====
